---- MODULE Spec2Model ----
(***************************************************************************)
(* Cumulative scans of ivy's numpy backend                                 *)
(* (ivy/functional/backends/numpy/statistical.py): cumsum, cumprod and     *)
(* cummax with its index helpers.                                          *)
(*                                                                         *)
(* An ndarray is a record [shape, at]: shape is the tuple of dimension     *)
(* sizes and at maps every 0-based index tuple to the element stored       *)
(* there.  A numpy scalar is the rank-0 array (shape <<>>).  Elements are  *)
(* int64; the values of the model stay far from 2^63, so no accumulation   *)
(* wraps and integers are left unbounded.  The dtype selection of lines    *)
(* 184-188, 219-224 and 257-262 is not modelled.  A raised exception is an *)
(* outcome record naming its kind.                                         *)
(***************************************************************************)
EXTENDS Integers, Sequences, FiniteSets, TLC

\* Bounds of the model.
MaxLen == 4
MaxDim == 2
MaxSeed == 4
MaxSeed3 == 2

\* Element values of the input arrays.
Vals == {-1, 0, 1}

VARIABLES op, x, axis, exclusive, reverse, strictTruth, res

vars == <<op, x, axis, exclusive, reverse, strictTruth, res>>

----------------------------------------------------------------------------
\* numpy primitives the backend composes

Min2(a, b) == IF a <= b THEN a ELSE b

Max2(a, b) == IF a >= b THEN a ELSE b

RECURSIVE Size(_)
\* x.size: the product of the dimension sizes
Size(s) == IF s = <<>> THEN 1 ELSE Head(s) * Size(Tail(s))

RECURSIVE MaxOf(_)
MaxOf(s) == IF s = <<>> THEN 0 ELSE Max2(Head(s), MaxOf(Tail(s)))

\* every index tuple of an array of shape s
Indices(s) ==
    {idx \in [1..Len(s) -> 0..(MaxOf(s) - 1)] : \A k \in 1..Len(s) : idx[k] < s[k]}

Rank(a) == Len(a.shape)

\* numpy accepts an axis in [-ndim, ndim) and raises AxisError otherwise
AxisValid(a, r) == -r <= a /\ a < r

\* the 1-based position of a valid axis in the shape tuple
NormAxis(a, r) == (IF a < 0 THEN a + r ELSE a) + 1

\* np.flip(a, axis=ax)
np_flip(a, ax) ==
    LET k == NormAxis(ax, Rank(a))
    IN  [shape |-> a.shape,
         at |-> [idx \in Indices(a.shape) |->
                    a.at[[idx EXCEPT ![k] = a.shape[k] - 1 - idx[k]]]]]

\* np.swapaxes(a, ax, -1)
np_swapaxes(a, ax) ==
    LET k == NormAxis(ax, Rank(a))
        r == Rank(a)
        s == [a.shape EXCEPT ![k] = a.shape[r], ![r] = a.shape[k]]
    IN  [shape |-> s,
         at |-> [idx \in Indices(s) |->
                    a.at[[idx EXCEPT ![k] = idx[r], ![r] = idx[k]]]]]

\* mutant of ShiftRight: the last slice is rotated to the front (np.roll)
\* where the fill slice belongs
ShiftRight_Roll(a, fill) ==
    LET r == Rank(a)
    IN  [shape |-> a.shape,
         at |-> [idx \in Indices(a.shape) |->
                    IF idx[r] = 0 THEN a.at[[idx EXCEPT ![r] = a.shape[r] - 1]]
                    ELSE a.at[[idx EXCEPT ![r] = idx[r] - 1]]]]

\* np.concatenate((fill_like(a[..., -1:]), a[..., :-1]), -1) with fill the
\* value of zeros_like (0) or ones_like (1)
ShiftRight(a, fill) ==
    LET r == Rank(a)
    IN  [shape |-> a.shape,
         at |-> [idx \in Indices(a.shape) |->
                    IF idx[r] = 0 THEN fill
                    ELSE a.at[[idx EXCEPT ![r] = idx[r] - 1]]]]

\* the binary operation of a ufunc: np.add, np.multiply, np.maximum
Combine(ufunc, a, b) ==
    CASE ufunc = "add" -> a + b
      [] ufunc = "multiply" -> a * b
      [] ufunc = "maximum" -> Max2(a, b)

RECURSIVE Run(_, _, _, _, _)
\* the running aggregate of a along axis position k, up to coordinate j
Run(ufunc, a, idx, k, j) ==
    IF j = 0 THEN a.at[[idx EXCEPT ![k] = 0]]
    ELSE Combine(ufunc, Run(ufunc, a, idx, k, j - 1), a.at[[idx EXCEPT ![k] = j]])

\* np.cumsum / np.cumprod / np.maximum.accumulate along axis ax
Accumulate(ufunc, a, ax) ==
    LET k == NormAxis(ax, Rank(a))
    IN  [shape |-> a.shape,
         at |-> [idx \in Indices(a.shape) |-> Run(ufunc, a, idx, k, idx[k])]]

----------------------------------------------------------------------------
\* outcomes of a call

NoArray == [shape |-> <<-1>>, at |-> <<>>]

Raise(kind) == [status |-> "error", error |-> kind, values |-> NoArray, indices |-> NoArray]

Return(v, i) == [status |-> "ok", error |-> "", values |-> v, indices |-> i]

----------------------------------------------------------------------------
\* cumsum

cumsum_branches(a, ax, excl, rev) ==
    IF excl \/ rev THEN
        IF excl /\ rev THEN
            np_flip(np_swapaxes(ShiftRight(np_swapaxes(
                Accumulate("add", np_flip(a, ax), ax), ax), 0), ax), ax)
        ELSE IF excl THEN
            np_swapaxes(Accumulate("add", ShiftRight(np_swapaxes(a, ax), 0), -1), ax)
        ELSE
            np_flip(Accumulate("add", np_flip(a, ax), ax), ax)
    ELSE Accumulate("add", a, ax)

\* mutant of cumsum: the axis is wrapped into range, not rejected
cumsum_WrapAxis(a, ax, excl, rev) ==
    Return(cumsum_branches(a, ax % Rank(a), excl, rev), NoArray)

cumsum(a, ax, excl, rev) ==
    IF ~AxisValid(ax, Rank(a)) THEN Raise("AxisError")
    ELSE Return(cumsum_branches(a, ax, excl, rev), NoArray)

----------------------------------------------------------------------------
\* cumprod

\* mutant of cumprod_branches: the exclusive reverse branch pads with
\* zeros_like, as cumsum does, where ones_like belongs
cumprod_branches_ZeroPad(a, ax, excl, rev) ==
    IF ~(excl \/ rev) THEN Accumulate("multiply", a, ax)
    ELSE IF excl /\ rev THEN
        np_flip(np_swapaxes(ShiftRight(np_swapaxes(
            Accumulate("multiply", np_flip(a, ax), ax), ax), 0), ax), ax)
    ELSE IF excl THEN
        np_swapaxes(Accumulate("multiply", ShiftRight(np_swapaxes(a, ax), 1), -1), ax)
    ELSE
        np_flip(Accumulate("multiply", np_flip(a, ax), ax), ax)

cumprod_branches(a, ax, excl, rev) ==
    IF ~(excl \/ rev) THEN Accumulate("multiply", a, ax)
    ELSE IF excl /\ rev THEN
        np_flip(np_swapaxes(ShiftRight(np_swapaxes(
            Accumulate("multiply", np_flip(a, ax), ax), ax), 1), ax), ax)
    ELSE IF excl THEN
        np_swapaxes(Accumulate("multiply", ShiftRight(np_swapaxes(a, ax), 1), -1), ax)
    ELSE
        np_flip(Accumulate("multiply", np_flip(a, ax), ax), ax)

cumprod(a, ax, excl, rev) ==
    IF ~AxisValid(ax, Rank(a)) THEN Raise("AxisError")
    ELSE Return(cumprod_branches(a, ax, excl, rev), NoArray)

----------------------------------------------------------------------------
\* cummax and its index helpers

\* a[i]: the i-th sub-array along the first axis (a scalar when a is 1-D)
Sub(a, i) ==
    [shape |-> Tail(a.shape),
     at |-> [idx \in Indices(Tail(a.shape)) |-> a.at[<<i>> \o idx]]]

\* mutant of Le: a strict comparison, so the first of equal maxima wins
Le_Strict(p, q) == p < q

\* ret1[n] <= y, element by element
Le(p, q) == p <= q

\* mutant of Ge: a strict comparison, so the first of equal maxima wins
Ge_Strict(p, q) == p > q

\* x[index][idx1] >= x[n1[idx1]][idx1], element by element
Ge(p, q) == p >= q

\* bool() of an elementwise comparison of p and q: a comparison of more than
\* one element raises ValueError; the truth of an empty one is False with a
\* deprecation warning, or ValueError in a numpy that enforces it (strict)
Truth(cmp, p, q, strict) ==
    LET I == Indices(p.shape)
    IN  IF Cardinality(I) = 1 THEN
            IF \A idx \in I : IF cmp = "le" THEN Le(p.at[idx], q.at[idx])
                                            ELSE Ge(p.at[idx], q.at[idx])
            THEN "T" ELSE "F"
        ELSE IF Cardinality(I) = 0 /\ ~strict THEN "F"
        ELSE "ValueError"

\* mutant of Advance: the pointer is not carried forward past a smaller element
Advance_Reset(n, idx, t) == IF t = "T" \/ idx = 0 THEN idx ELSE 0

\* the pointer after one step of the walk: if ret1[n] <= y or idx == 0: n = idx
Advance(n, idx, t) == IF t = "T" \/ idx = 0 THEN idx ELSE n

RECURSIVE FindLoop(_, _, _)
\* __find_indices_values after its first k iterations
FindLoop(ret1, k, strict) ==
    IF k = 0 THEN [err |-> "", n |-> 0, indice |-> <<>>]
    ELSE LET p == FindLoop(ret1, k - 1, strict)
             idx == k - 1
             t == Truth("le", Sub(ret1, p.n), Sub(ret1, idx), strict)
         IN  IF p.err # "" THEN p
             ELSE IF t = "ValueError" THEN [p EXCEPT !.err = "ValueError"]
             ELSE [err |-> "", n |-> Advance(p.n, idx, t),
                   indice |-> Append(p.indice, Advance(p.n, idx, t))]

find_indices_values(ret1, strict) == FindLoop(ret1, ret1.shape[1], strict)

RECURSIVE WalkLoop(_, _, _)
\* the axis-0 walk of __find_cummax_indices after its first k rows; n1 is the
\* dict of per-column pointers, rows the list of index rows built so far
WalkLoop(a, k, strict) ==
    IF k = 0 THEN [err |-> "", n1 |-> [j \in 1..a.shape[2] |-> 0], rows |-> <<>>]
    ELSE LET p == WalkLoop(a, k - 1, strict)
             index == k - 1
             t(j) == IF index = 0 THEN "T"
                     ELSE Truth("ge", Sub(Sub(a, index), j - 1),
                                Sub(Sub(a, p.n1[j]), j - 1), strict)
             n1new == [j \in 1..a.shape[2] |-> IF t(j) = "T" THEN index ELSE p.n1[j]]
         IN  IF p.err # "" THEN p
             ELSE IF \E j \in 1..a.shape[2] : t(j) = "ValueError"
                  THEN [p EXCEPT !.err = "ValueError"]
             ELSE [err |-> "", n1 |-> n1new, rows |-> Append(p.rows, n1new)]

\* np.array(indices) of a list of integers
ArrayOfList(l) ==
    [shape |-> <<Len(l)>>, at |-> [idx \in Indices(<<Len(l)>>) |-> l[idx[1] + 1]]]

\* np.array(indices) of a non-empty list of equally long lists of integers
ArrayOfRows(rows) ==
    LET s == <<Len(rows), Len(rows[1])>>
    IN  [shape |-> s, at |-> [idx \in Indices(s) |-> rows[idx[1] + 1][idx[2] + 1]]]

find_cummax_indices(a, ax, strict) ==
    IF a.shape[1] = 0 THEN [err |-> "IndexError", arr |-> NoArray]
    ELSE IF Rank(a) >= 2 THEN
        IF ax = 1 THEN
            LET rs == [i \in 1..a.shape[1] |-> find_indices_values(Sub(a, i - 1), strict)]
            IN  IF \E i \in 1..a.shape[1] : rs[i].err # ""
                THEN [err |-> "ValueError", arr |-> NoArray]
                ELSE [err |-> "", arr |-> ArrayOfRows([i \in 1..a.shape[1] |-> rs[i].indice])]
        ELSE
            LET w == WalkLoop(a, a.shape[1], strict)
            IN  IF w.err # "" THEN [err |-> w.err, arr |-> NoArray]
                ELSE [err |-> "", arr |-> ArrayOfRows(w.rows)]
    ELSE
        LET r == find_indices_values(a, strict)
        IN  [err |-> r.err, arr |-> ArrayOfList(r.indice)]

\* the (exclusive and reverse) branch of cummax
cummax_exclusive_reverse(a, ax, strict) ==
    IF ~AxisValid(ax, Rank(a)) THEN Raise("AxisError")
    ELSE LET f == np_flip(a, ax)
             ind == find_cummax_indices(f, ax, strict)
             v == Accumulate("maximum", f, ax)
         IN  IF ind.err # "" THEN Raise(ind.err)
             ELSE IF ~AxisValid(ax, Rank(ind.arr)) THEN Raise("AxisError")
             ELSE Return(
                    np_flip(np_swapaxes(ShiftRight(np_swapaxes(v, ax), 0), ax), ax),
                    np_flip(np_swapaxes(ShiftRight(np_swapaxes(ind.arr, ax), 0), ax), ax))

\* the exclusive branch of cummax
cummax_exclusive(a, ax, strict) ==
    IF ~AxisValid(ax, Rank(a)) THEN Raise("AxisError")
    ELSE LET s == np_swapaxes(ShiftRight(np_swapaxes(a, ax), 0), ax)
             ind == find_cummax_indices(s, ax, strict)
         IN  IF ind.err # "" THEN Raise(ind.err)
             ELSE Return(Accumulate("maximum", s, ax), ind.arr)

\* the reverse branch of cummax
cummax_reverse(a, ax, strict) ==
    IF ~AxisValid(ax, Rank(a)) THEN Raise("AxisError")
    ELSE LET f == np_flip(a, ax)
             ind == find_cummax_indices(f, ax, strict)
         IN  IF ind.err # "" THEN Raise(ind.err)
             ELSE IF ~AxisValid(ax, Rank(ind.arr)) THEN Raise("AxisError")
             ELSE Return(np_flip(Accumulate("maximum", f, ax), ax), np_flip(ind.arr, ax))

\* cummax with neither exclusive nor reverse
cummax_plain(a, ax, strict) ==
    LET ind == find_cummax_indices(a, ax, strict)
    IN  IF ind.err # "" THEN Raise(ind.err)
        ELSE IF ~AxisValid(ax, Rank(a)) THEN Raise("AxisError")
        ELSE Return(Accumulate("maximum", a, ax), ind.arr)

cummax(a, ax, excl, rev, strict) ==
    IF excl \/ rev THEN
        IF excl /\ rev THEN cummax_exclusive_reverse(a, ax, strict)
        ELSE IF excl THEN cummax_exclusive(a, ax, strict)
        ELSE cummax_reverse(a, ax, strict)
    ELSE cummax_plain(a, ax, strict)

----------------------------------------------------------------------------
\* input arrays

RECURSIVE Flat(_, _)
\* row-major offset of an index tuple
Flat(s, idx) ==
    IF s = <<>> THEN 0
    ELSE idx[1] * Size(Tail(s)) + Flat(Tail(s), Tail(idx))

\* the shapes of the input arrays: rank 1 to 3, zero-length axes included
Shapes ==
    {<<n>> : n \in 0..MaxLen}
    \cup {<<a, b>> : a \in 0..MaxDim, b \in 0..MaxDim}
    \cup {<<a, b, c>> : a \in 0..MaxDim, b \in 0..MaxDim, c \in 0..MaxDim}

\* 1-D arrays are enumerated in full; arrays of rank 2 and 3 repeat a seed
\* of at most MaxSeed (MaxSeed3) elements in row-major order
SeedLen(s) ==
    IF Len(s) = 1 THEN s[1]
    ELSE IF Len(s) = 2 THEN Min2(Size(s), MaxSeed)
    ELSE Min2(Size(s), MaxSeed3)

FromSeed(s, seed) ==
    [shape |-> s,
     at |-> [idx \in Indices(s) |-> seed[(Flat(s, idx) % Len(seed)) + 1]]]

Arrays == UNION {{FromSeed(s, seed) : seed \in [1..SeedLen(s) -> Vals]} : s \in Shapes}

\* the axis arguments tried: every valid axis and one beyond each end
Axes(a) == (-(Rank(a) + 1))..Rank(a)

\* whether this numpy raises on the truth value of an empty array; it is
\* consulted only when rows of zero-length sub-arrays are compared
TruthModes(a) ==
    IF Rank(a) = 3 /\ a.shape[3] = 0 /\ a.shape[1] > 0 /\ a.shape[2] > 0
    THEN BOOLEAN ELSE {FALSE}

----------------------------------------------------------------------------

Init ==
    /\ op = "none"
    /\ x \in Arrays
    /\ axis \in Axes(x)
    /\ exclusive \in BOOLEAN
    /\ reverse \in BOOLEAN
    /\ strictTruth \in TruthModes(x)
    /\ res = Raise("")

CallCumsum ==
    /\ op = "none"
    /\ op' = "cumsum"
    /\ res' = cumsum(x, axis, exclusive, reverse)
    /\ UNCHANGED <<x, axis, exclusive, reverse, strictTruth>>

CallCumprod ==
    /\ op = "none"
    /\ op' = "cumprod"
    /\ res' = cumprod(x, axis, exclusive, reverse)
    /\ UNCHANGED <<x, axis, exclusive, reverse, strictTruth>>

CallCummax ==
    /\ op = "none"
    /\ op' = "cummax"
    /\ res' = cummax(x, axis, exclusive, reverse, strictTruth)
    /\ UNCHANGED <<x, axis, exclusive, reverse, strictTruth>>

Next == CallCumsum \/ CallCumprod \/ CallCummax

Spec == Init /\ [][Next]_vars

----------------------------------------------------------------------------
\* helpers of the properties

Is1D == Rank(x) = 1

\* the elements of a 1-D array as a sequence
Elems(a) == [i \in 1..a.shape[1] |-> a.at[<<i - 1>>]]

\* the largest of x[0..i] of the 1-D input
PrefixMax(i) ==
    CHOOSE m \in {x.at[<<j>>] : j \in 0..i} : \A j \in 0..i : x.at[<<j>>] <= m

\* the largest of x[i..n-1] of the 1-D input
SuffixMax(i) ==
    CHOOSE m \in {x.at[<<j>>] : j \in i..(x.shape[1] - 1)} :
        \A j \in i..(x.shape[1] - 1) : x.at[<<j>>] <= m

\* the index tuple of a rank-2 array with coordinate i on axis ax and c on the other
Coord(ax, i, c) == IF ax = 0 THEN <<i, c>> ELSE <<c, i>>

\* the 1-D line of the rank-2 array a along axis ax at coordinate c of the other axis
Line(a, ax, c) ==
    [shape |-> <<a.shape[ax + 1]>>,
     at |-> [idx \in Indices(<<a.shape[ax + 1]>>) |-> a.at[Coord(ax, idx[1], c)]]]

----------------------------------------------------------------------------
\* C1: on a 1-D array of length >= 2, the forward exclusive cumsum starts
\* with 0 and its entry i >= 1 is entry i-1 of the forward inclusive cumsum.
C1_ExclusiveCumsum ==
    (op = "cumsum" /\ Is1D /\ x.shape[1] >= 2 /\ axis = 0 /\ exclusive /\ ~reverse) =>
        /\ res.status = "ok"
        /\ res.values.shape = x.shape
        /\ res.values.at[<<0>>] = 0
        /\ \A i \in 1..(x.shape[1] - 1) :
              res.values.at[<<i>>] = cumsum(x, 0, FALSE, FALSE).values.at[<<i - 1>>]

C1_Witness ==
    /\ op = "cumsum" /\ Is1D /\ axis = 0 /\ exclusive /\ ~reverse
    /\ Elems(x) = <<1, -1, 1>>
    /\ res.status = "ok"
    /\ Elems(res.values) = <<0, 1, 0>>

\* C2: on a 1-D array, cumsum and cumprod with reverse=True equal the flip
\* of the forward scan (inclusive or exclusive alike) of the flipped input.
C2_ReverseIsFlipScanFlip ==
    (op \in {"cumsum", "cumprod"} /\ Is1D /\ axis = 0 /\ reverse) =>
        /\ res.status = "ok"
        /\ res.values =
              np_flip((IF op = "cumsum"
                       THEN cumsum(np_flip(x, 0), 0, exclusive, FALSE)
                       ELSE cumprod(np_flip(x, 0), 0, exclusive, FALSE)).values, 0)

C2_Witness ==
    /\ op = "cumprod" /\ Is1D /\ axis = 0 /\ reverse /\ exclusive
    /\ Elems(x) = <<0, -1, 1, -1>>
    /\ res.status = "ok"
    /\ Elems(res.values) = <<1, -1, -1, 1>>

\* C3: on a non-empty 1-D array the forward inclusive cummax returns the
\* running maximum (non-decreasing) and, as index, the largest j <= i at
\* which x[j] equals it.
C3_CummaxLastWins ==
    (op = "cummax" /\ Is1D /\ x.shape[1] >= 1 /\ axis = 0 /\ ~exclusive /\ ~reverse) =>
        /\ res.status = "ok"
        /\ res.values.shape = x.shape
        /\ res.indices.shape = x.shape
        /\ \A i \in 0..(x.shape[1] - 1) :
              /\ res.values.at[<<i>>] = PrefixMax(i)
              /\ i >= 1 => res.values.at[<<i>>] >= res.values.at[<<i - 1>>]
              /\ res.indices.at[<<i>>] \in 0..i
              /\ x.at[<<res.indices.at[<<i>>]>>] = res.values.at[<<i>>]
              /\ \A j \in 0..i :
                    x.at[<<j>>] = res.values.at[<<i>>] => j <= res.indices.at[<<i>>]

\* the tie of [3,5,5,2], in the values of the model: [0,1,1,-1]
C3_Witness ==
    /\ op = "cummax" /\ Is1D /\ axis = 0 /\ ~exclusive /\ ~reverse
    /\ Elems(x) = <<0, 1, 1, -1>>
    /\ res.status = "ok"
    /\ Elems(res.values) = <<0, 1, 1, 1>>
    /\ Elems(res.indices) = <<0, 1, 2, 2>>

\* C4: for every operation, every rank-1..3 input (zero-length axes
\* included), every axis in [0, rank) and every mode, the call returns and
\* every output has the shape of the input.
C4_ShapePreserved ==
    (op # "none" /\ 0 <= axis /\ axis < Rank(x)) =>
        /\ res.status = "ok"
        /\ res.values.shape = x.shape
        /\ op = "cummax" => res.indices.shape = x.shape

\* C5: cummax on a non-empty 1-D array of length n: every index is in
\* 0..n-1 in all four modes, and with reverse=False the index output is
\* non-decreasing.
C5_IndexRangeAndMonotone ==
    (op = "cummax" /\ Is1D /\ x.shape[1] >= 1 /\ axis = 0) =>
        /\ res.status = "ok"
        /\ res.indices.shape = x.shape
        /\ \A i \in 0..(x.shape[1] - 1) : res.indices.at[<<i>>] \in 0..(x.shape[1] - 1)
        /\ ~reverse =>
              \A i \in 1..(x.shape[1] - 1) :
                  res.indices.at[<<i - 1>>] <= res.indices.at[<<i>>]

C5_Witness ==
    /\ op = "cummax" /\ Is1D /\ axis = 0 /\ exclusive /\ ~reverse
    /\ Elems(x) = <<-1, 0, 1, 0>>
    /\ res.status = "ok"
    /\ Elems(res.indices) = <<0, 0, 2, 3>>

C7_ReverseExclusiveIsFlippedForwardExclusive ==
    (op = "cummax" /\ Is1D /\ x.shape[1] >= 1 /\ axis = 0 /\ exclusive /\ reverse) =>
        /\ res.status = "ok"
        /\ res.values = np_flip(cummax(np_flip(x, 0), 0, TRUE, FALSE, FALSE).values, 0)
        /\ res.indices = np_flip(cummax(np_flip(x, 0), 0, TRUE, FALSE, FALSE).indices, 0)

\* C8: on a rank-2 array with both dimensions >= 1 and axis 0 or 1, the
\* forward inclusive cummax gives on every line along the axis the values
\* and indices of the 1-D cummax of that line.
C8_Rank2LinesIndependent ==
    (op = "cummax" /\ Rank(x) = 2 /\ x.shape[1] >= 1 /\ x.shape[2] >= 1
        /\ axis \in {0, 1} /\ ~exclusive /\ ~reverse) =>
        /\ res.status = "ok"
        /\ res.values.shape = x.shape
        /\ res.indices.shape = x.shape
        /\ \A c \in 0..(x.shape[2 - axis] - 1) :
              LET l == cummax(Line(x, axis, c), 0, FALSE, FALSE, FALSE)
              IN  \A i \in 0..(x.shape[axis + 1] - 1) :
                      /\ res.values.at[Coord(axis, i, c)] = l.values.at[<<i>>]
                      /\ res.indices.at[Coord(axis, i, c)] = l.indices.at[<<i>>]

C8_Witness ==
    /\ op = "cummax" /\ x.shape = <<2, 2>> /\ axis = 0 /\ ~exclusive /\ ~reverse
    /\ res.status = "ok"
    /\ res.indices.at[<<1, 0>>] = 1
    /\ res.indices.at[<<1, 1>>] = 0
    /\ x.at[<<0, 0>>] = x.at[<<1, 0>>]

\* C9: on a 1-D array of length >= 2 the forward exclusive cummax has the
\* zero fill at position 0 and at i >= 1 the maximum of x[0..i-1].
C9_ExclusiveCummaxIsShiftedInclusive ==
    (op = "cummax" /\ Is1D /\ x.shape[1] >= 2 /\ axis = 0 /\ exclusive /\ ~reverse) =>
        /\ res.status = "ok"
        /\ res.values.at[<<0>>] = 0
        /\ \A i \in 1..(x.shape[1] - 1) :
              /\ res.values.at[<<i>>] = PrefixMax(i - 1)
              /\ res.values.at[<<i>>] = cummax(x, 0, FALSE, FALSE, FALSE).values.at[<<i - 1>>]

\* C10: on a non-empty 1-D array the reverse inclusive cummax has at i the
\* maximum of x[i..n-1] and an index >= i at which the input holds it.
C10_ReverseCummaxIndexIsInputCoordinate ==
    (op = "cummax" /\ Is1D /\ x.shape[1] >= 1 /\ axis = 0 /\ ~exclusive /\ reverse) =>
        /\ res.status = "ok"
        /\ \A i \in 0..(x.shape[1] - 1) :
              /\ res.values.at[<<i>>] = SuffixMax(i)
              /\ res.indices.at[<<i>>] >= i
              /\ res.indices.at[<<i>>] <= x.shape[1] - 1
              /\ x.at[<<res.indices.at[<<i>>]>>] = res.values.at[<<i>>]

====
